---- MODULE Spec2Model ----
(***************************************************************************)
(* Model of the OpenAI-to-Claude response path of claude-worker-proxy:     *)
(* impl.convertToClaudeResponse, the line-processing callback created by   *)
(* impl.convertStreamResponse, and utils.processProviderStream with the    *)
(* event encoders it drives.                                               *)
(*                                                                         *)
(* Text is a sequence of symbols.  A symbol is one character, or one token *)
(* that stands for a longer run of characters which the code only treats   *)
(* as a whole: a JSON document (pTextA, ...), the sentinel [DONE], the two *)
(* halves "data" and ": " of the data marker, six other characters.  Width *)
(* gives the number of characters a symbol stands for, so that slice(6)    *)
(* cuts where the code cuts.  Reads hand out whole symbols.  The random    *)
(* identifiers made by generateId are not represented in the events.       *)
(***************************************************************************)
EXTENDS Integers, Sequences, FiniteSets, TLC

\* Largest number of symbols in an upstream body.
MaxBodyLen == 10

\* Largest number of direct calls of the line callback in SpecCallback.
MaxCalls == 2

\* Largest incoming block index tried in SpecCallback.
MaxIndex == 2

\* Largest number of slash-separated parts of a request path in SpecHandle.
MaxPathParts == 4

LF == "LF"
CR == "CR"
DONE == "[DONE]"
FRAG == "frag"
REPLACEMENT == "U+FFFD"

\* The characters String.prototype.trim and JSON.parse treat as white space.
WhiteSpace == {" ", CR}

\* 'data: ', the marker of line 432.
DataMarker == << "data", ": " >>

\* Six characters that are not the marker.
SIX == "xxxxxx"

\* The two bytes of a two-byte UTF-8 character and the character they encode.
LeadByte == "c3"
ContByte == "a9"
EAcute == "e'"

(***************************************************************************)
(* JSON documents of the upstream.  jsonOk: JSON.parse accepts the text;   *)
(* choices: the choices array ("" content and "" name/arguments stand for  *)
(* an absent or empty field, both falsy); hasDelta: choices[0].delta is    *)
(* present.                                                                *)
(***************************************************************************)
ArgsQX == "{\"q\":\"x\"}"
ArgsQXSpaced == "{ \"q\" : \"x\" }"
ArgsNotJson == "not json"

Delta(content, tool_calls) ==
    [jsonOk |-> TRUE,
     choices |-> << [hasDelta |-> TRUE, content |-> content, tool_calls |-> tool_calls] >>]

ToolCall(name, arguments) == [name |-> name, arguments |-> arguments]

Documents ==
    [ pTextA     |-> Delta("A", <<>>),
      pTextB     |-> Delta("B", <<>>),
      pTool      |-> Delta("", << ToolCall("lookup", ArgsQX) >>),
      pMixed     |-> Delta("A", << ToolCall("lookup", ArgsQXSpaced),
                                   ToolCall("lookup", ""),
                                   ToolCall("calc", ArgsNotJson) >>),
      pPartial   |-> Delta("", << ToolCall("lookup", ""), ToolCall("", ArgsQX) >>),
      pNoChoices |-> [jsonOk |-> TRUE, choices |-> <<>>],
      pNoDelta   |-> [jsonOk |-> TRUE,
                      choices |-> << [hasDelta |-> FALSE, content |-> "",
                                      tool_calls |-> <<>>] >>],
      pBad       |-> [jsonOk |-> FALSE, choices |-> <<>>] ]

DocumentNames == DOMAIN Documents

\* Number of characters a symbol stands for.
Width(sym) ==
    IF sym \in DocumentNames THEN 7
    ELSE IF sym \in {DONE, SIX} THEN 6
    ELSE IF sym = "data" THEN 4
    ELSE IF sym = ": " THEN 2
    ELSE 1

(***************************************************************************)
(* String helpers                                                          *)
(***************************************************************************)
\* !s.trim()
IsBlank(s) == \A i \in 1..Len(s) : s[i] \in WhiteSpace

\* s.startsWith('data: ')
StartsWithData(s) == Len(s) >= Len(DataMarker) /\ SubSeq(s, 1, Len(DataMarker)) = DataMarker

RECURSIVE Slice(_, _)
\* s.slice(n): drops the first n characters; a token cut through leaves a fragment.
Slice(s, n) ==
    IF n = 0 \/ s = <<>> THEN s
    ELSE IF Width(Head(s)) <= n THEN Slice(Tail(s), n - Width(Head(s)))
    ELSE <<FRAG>> \o Tail(s)

RECURSIVE TrimLeft(_)
TrimLeft(s) == IF s # <<>> /\ Head(s) \in WhiteSpace THEN TrimLeft(Tail(s)) ELSE s

RECURSIVE TrimRight(_)
TrimRight(s) ==
    IF s # <<>> /\ s[Len(s)] \in WhiteSpace THEN TrimRight(SubSeq(s, 1, Len(s) - 1)) ELSE s

RECURSIVE Split(_)
\* s.split('\n'): the pieces between line feeds, the last piece included.
Split(s) ==
    IF \A i \in 1..Len(s) : s[i] # LF THEN << s >>
    ELSE LET i == CHOOSE k \in 1..Len(s) :
                      s[k] = LF /\ \A j \in 1..(k - 1) : s[j] # LF
         IN  << SubSeq(s, 1, i - 1) >> \o Split(SubSeq(s, i + 1, Len(s)))

RECURSIVE Decode(_, _)
\* decoder.decode(value, {stream: true}): pending is the lead byte held back
\* from the previous call ("" when none).
Decode(pending, bytes) ==
    IF bytes = <<>> THEN [text |-> <<>>, pending |-> pending]
    ELSE LET b == Head(bytes) IN
         IF pending # "" THEN
             IF b = ContByte
             THEN LET r == Decode("", Tail(bytes))
                  IN  [r EXCEPT !.text = <<EAcute>> \o @]
             ELSE LET r == Decode("", bytes)
                  IN  [r EXCEPT !.text = <<REPLACEMENT>> \o @]
         ELSE IF b = LeadByte THEN Decode(LeadByte, Tail(bytes))
         ELSE LET r == Decode("", Tail(bytes))
              IN  [r EXCEPT !.text = << (IF b = ContByte THEN REPLACEMENT ELSE b) >> \o @]

\* JSON.parse of a text without white space around it.
JsonParseTrimmed(t) ==
    IF Len(t) = 1 /\ t[1] \in DocumentNames /\ Documents[t[1]].jsonOk
    THEN [threw |-> FALSE, value |-> Documents[t[1]]]
    ELSE [threw |-> TRUE, value |-> Documents.pBad]

\* JSON.parse(jsonStr): white space around the document is accepted.
JsonParse(jsonStr) == JsonParseTrimmed(TrimRight(TrimLeft(jsonStr)))

(***************************************************************************)
(* Token estimator and safeJsonParse (module token-estimator, consumed as  *)
(* opaque capabilities): estimate gives a count for a text, safeJsonParse  *)
(* gives the parsed value, or the empty object for text that is not JSON.  *)
(***************************************************************************)
ObjQX == "object{q:x}"
ObjEmpty == "object{}"

\* estimate(text) -> count
estimate(text) ==
    CASE text = "A" -> 1
      [] text = "B" -> 2
      [] text = "lookup" -> 2
      [] text = "calc" -> 1
      [] text = ArgsQX -> 3
      [] text = "{}" -> 1
      [] OTHER -> 0

\* estimateMessages(originalClaudeRequest.messages) -> count
estimateMessages(request) == IF request = "request" THEN 4 ELSE 0

\* safeJsonParse(arguments)
safeJsonParse(arguments) ==
    IF arguments \in {ArgsQX, ArgsQXSpaced} THEN ObjQX ELSE ObjEmpty

\* JSON.stringify(value) for the values safeJsonParse returns.
JsonStringify(value) == IF value = ObjQX THEN ArgsQX ELSE "{}"

(***************************************************************************)
(* Event encoders.  An event is the record of what its JSON payload says.  *)
(***************************************************************************)
Event(type, index, block, name, data, usage) ==
    [type |-> type, index |-> index, block |-> block, name |-> name,
     data |-> data, usage |-> usage]

\* The event sendMessageStart enqueues.
MessageStart == Event("message_start", -1, "", "", "", <<>>)

\* The event sendMessageStop enqueues; usage is <<>> or <<input, output>>.
MessageStop(usage) == Event("message_stop", -1, "", "", "", usage)

processTextPart(text, index) ==
    << Event("content_block_start", index, "text", "", "", <<>>),
       Event("content_block_delta", index, "text_delta", "", text, <<>>),
       Event("content_block_stop", index, "", "", "", <<>>) >>

\* Mutant of processToolUsePart: the content_block_stop is forgotten.
processToolUsePartNoStop(functionCall, index) ==
    << Event("content_block_start", index, "tool_use", functionCall.name, "", <<>>),
       Event("content_block_delta", index, "input_json_delta", "",
             JsonStringify(functionCall.args), <<>>) >>

processToolUsePart(functionCall, index) ==
    << Event("content_block_start", index, "tool_use", functionCall.name, "", <<>>),
       Event("content_block_delta", index, "input_json_delta", "",
             JsonStringify(functionCall.args), <<>>),
       Event("content_block_stop", index, "", "", "", <<>>) >>

(***************************************************************************)
(* The callback convertStreamResponse hands to processProviderStream.      *)
(* accumulated is the closure variable accumulatedOutputTokens, passed in  *)
(* and returned because the callback reads and writes it.                  *)
(***************************************************************************)
RECURSIVE ToolCallsLoopNoIncrement(_, _, _)
\* Mutant of ToolCallsLoop: currentToolIndex++ is forgotten.
ToolCallsLoopNoIncrement(tool_calls, currentToolIndex, accumulated) ==
    IF tool_calls = <<>>
    THEN [events |-> <<>>, currentToolIndex |-> currentToolIndex,
          accumulated |-> accumulated]
    ELSE LET toolCall == Head(tool_calls) IN
         IF toolCall.name # "" /\ toolCall.arguments # ""
         THEN LET toolArgs == safeJsonParse(toolCall.arguments)
                  rest == ToolCallsLoopNoIncrement(Tail(tool_calls), currentToolIndex,
                              accumulated + estimate(toolCall.name)
                                          + estimate(JsonStringify(toolArgs)))
              IN  [rest EXCEPT !.events =
                       processToolUsePart([name |-> toolCall.name, args |-> toolArgs],
                                          currentToolIndex) \o @]
         ELSE ToolCallsLoopNoIncrement(Tail(tool_calls), currentToolIndex, accumulated)

RECURSIVE ToolCallsLoopEitherField(_, _, _)
\* Mutant of ToolCallsLoop: a name or arguments are enough for a block.
ToolCallsLoopEitherField(tool_calls, currentToolIndex, accumulated) ==
    IF tool_calls = <<>>
    THEN [events |-> <<>>, currentToolIndex |-> currentToolIndex,
          accumulated |-> accumulated]
    ELSE LET toolCall == Head(tool_calls) IN
         IF toolCall.name # "" \/ toolCall.arguments # ""
         THEN LET toolArgs == safeJsonParse(toolCall.arguments)
                  rest == ToolCallsLoopEitherField(Tail(tool_calls), currentToolIndex + 1,
                              accumulated + estimate(toolCall.name)
                                          + estimate(JsonStringify(toolArgs)))
              IN  [rest EXCEPT !.events =
                       processToolUsePart([name |-> toolCall.name, args |-> toolArgs],
                                          currentToolIndex) \o @]
         ELSE ToolCallsLoopEitherField(Tail(tool_calls), currentToolIndex, accumulated)

RECURSIVE ToolCallsLoop(_, _, _)
\* The loop of lines 239-258 over delta.tool_calls.
ToolCallsLoop(tool_calls, currentToolIndex, accumulated) ==
    IF tool_calls = <<>>
    THEN [events |-> <<>>, currentToolIndex |-> currentToolIndex,
          accumulated |-> accumulated]
    ELSE LET toolCall == Head(tool_calls) IN
         IF toolCall.name # "" /\ toolCall.arguments # ""
         THEN LET toolArgs == safeJsonParse(toolCall.arguments)
                  rest == ToolCallsLoop(Tail(tool_calls), currentToolIndex + 1,
                              accumulated + estimate(toolCall.name)
                                          + estimate(JsonStringify(toolArgs)))
              IN  [rest EXCEPT !.events =
                       processToolUsePart([name |-> toolCall.name, args |-> toolArgs],
                                          currentToolIndex) \o @]
         ELSE ToolCallsLoop(Tail(tool_calls), currentToolIndex, accumulated)

\* What the callback gives back: threw (an exception leaves it), isNull (it
\* returned null), else the returned record; accumulated is the closure
\* variable after the call.
CallbackResult(threw, isNull, events, textBlockIndex, toolUseBlockIndex, accumulated) ==
    [threw |-> threw, isNull |-> isNull, events |-> events,
     textBlockIndex |-> textBlockIndex, toolUseBlockIndex |-> toolUseBlockIndex,
     outputTokens |-> accumulated, accumulated |-> accumulated]

\* Mutant of processDelta: the token figure is that of this call alone, not
\* the running total of the closure.
processDeltaOwnTokens(delta, textBlockIndex, toolUseBlockIndex, accumulated) ==
    IF ~delta.hasDelta
    THEN CallbackResult(TRUE, FALSE, <<>>, textBlockIndex, toolUseBlockIndex, accumulated)
    ELSE IF delta.content # ""
    THEN LET tools == ToolCallsLoop(delta.tool_calls, toolUseBlockIndex,
                                    estimate(delta.content))
         IN  CallbackResult(FALSE, FALSE,
                            processTextPart(delta.content, textBlockIndex) \o tools.events,
                            textBlockIndex + 1, tools.currentToolIndex, tools.accumulated)
    ELSE LET tools == ToolCallsLoop(delta.tool_calls, toolUseBlockIndex, 0)
         IN  CallbackResult(FALSE, FALSE, tools.events, textBlockIndex,
                            tools.currentToolIndex, tools.accumulated)

\* Lines 224-266: the callback once choices[0].delta is at hand.
processDelta(delta, textBlockIndex, toolUseBlockIndex, accumulated) ==
    IF ~delta.hasDelta
    THEN CallbackResult(TRUE, FALSE, <<>>, textBlockIndex, toolUseBlockIndex, accumulated)
    ELSE IF delta.content # ""
    THEN LET tools == ToolCallsLoop(delta.tool_calls, toolUseBlockIndex,
                                    accumulated + estimate(delta.content))
         IN  CallbackResult(FALSE, FALSE,
                            processTextPart(delta.content, textBlockIndex) \o tools.events,
                            textBlockIndex + 1, tools.currentToolIndex, tools.accumulated)
    ELSE LET tools == ToolCallsLoop(delta.tool_calls, toolUseBlockIndex, accumulated)
         IN  CallbackResult(FALSE, FALSE, tools.events, textBlockIndex,
                            tools.currentToolIndex, tools.accumulated)

\* Lines 219-223: the callback once JSON.parse has run.
processParsed(parsed, textBlockIndex, toolUseBlockIndex, accumulated) ==
    IF parsed.threw
    THEN CallbackResult(TRUE, FALSE, <<>>, textBlockIndex, toolUseBlockIndex, accumulated)
    ELSE IF parsed.value.choices = <<>>
    THEN CallbackResult(FALSE, TRUE, <<>>, textBlockIndex, toolUseBlockIndex, accumulated)
    ELSE processDelta(parsed.value.choices[1], textBlockIndex, toolUseBlockIndex,
                      accumulated)

\* Lines 218-267: the callback.
processLine(jsonStr, textBlockIndex, toolUseBlockIndex, accumulated) ==
    processParsed(JsonParse(jsonStr), textBlockIndex, toolUseBlockIndex, accumulated)

(***************************************************************************)
(* processProviderStream: the body of start(controller).  A record s holds *)
(* the locals of lines 413-417, the decoder's pending byte, the closure    *)
(* variable of the callback, the events enqueued so far and how the try    *)
(* block was left ("none" while it still runs).                            *)
(***************************************************************************)
\* Lines 439-445: the locals after a result that is not null.
TakeResult(s, result) ==
    [s EXCEPT !.textBlockIndex = result.textBlockIndex,
              !.toolUseBlockIndex = result.toolUseBlockIndex,
              !.totalOutputTokens =
                  IF result.outputTokens # 0 THEN result.outputTokens ELSE @,
              !.accumulated = result.accumulated]

\* Lines 447-449: result.events enqueued one by one; controller.enqueue throws
\* on the first one when canEnqueue is FALSE (the outbound stream was
\* cancelled).
EnqueueEvents(s, events, canEnqueue) ==
    IF events # <<>> /\ ~canEnqueue THEN [s EXCEPT !.exit = "enqueueError"]
    ELSE [s EXCEPT !.out = @ \o events]

\* Lines 438-450: what one line's result does to the locals.
LineResult(s, result, canEnqueue) ==
    IF result.threw THEN [s EXCEPT !.exit = "lineError"]
    ELSE IF result.isNull THEN s
    ELSE EnqueueEvents(TakeResult(s, result), result.events, canEnqueue)

\* Mutant of Actionable: the sentinel is not told from a payload.
ActionableNoSentinel(line) ==
    /\ ~IsBlank(line)
    /\ StartsWithData(line)

\* Lines 432-437: is the line handed to the callback?
Actionable(line) ==
    /\ ~IsBlank(line)
    /\ StartsWithData(line)
    /\ Slice(line, 6) # << DONE >>

\* Lines 432-450: one line of the loop.
LineStep(s, line, canEnqueue) ==
    IF ~Actionable(line) THEN s
    ELSE LineResult(s, processLine(Slice(line, 6), s.textBlockIndex, s.toolUseBlockIndex,
                                   s.accumulated), canEnqueue)

RECURSIVE LinesLoop(_, _, _)
\* for (const line of lines) of lines 431-451; an exception ends it.
LinesLoop(s, lines, canEnqueue) ==
    IF lines = <<>> \/ s.exit # "none" THEN s
    ELSE LinesLoop(LineStep(s, Head(lines), canEnqueue), Tail(lines), canEnqueue)

\* Mutant of processLines: the last piece is processed with the lines and not
\* kept for the next read.
processLinesEager(s, lines, canEnqueue) ==
    LinesLoop([s EXCEPT !.buffer = <<>>], lines, canEnqueue)

\* Lines 427-451: the chunk split into lines, the last piece kept as buffer.
processLines(s, lines, canEnqueue) ==
    LinesLoop([s EXCEPT !.buffer = lines[Len(lines)]],
              SubSeq(lines, 1, Len(lines) - 1), canEnqueue)

\* Line 426 on: the decoded text joins the buffer.
processDecoded(s, decoded, canEnqueue) ==
    processLines([s EXCEPT !.pending = decoded.pending],
                 Split(s.buffer \o decoded.text), canEnqueue)

\* Lines 426-451: one turn of the read loop on a chunk of bytes.
processChunk(s, value, canEnqueue) ==
    processDecoded(s, Decode(s.pending, value), canEnqueue)

\* Mutant of finallyTail: the usage is attached when either argument was given.
finallyTailEitherSupplied(s, canEnqueue, originalClaudeRequest, tokenEstimator) ==
    IF ~canEnqueue
    THEN [state |-> s, ops |-> << "releaseLock" >>, completed |-> FALSE]
    ELSE [state |-> [s EXCEPT !.out = @ \o << MessageStop(
                        IF originalClaudeRequest # "none" \/ tokenEstimator
                        THEN << estimateMessages(originalClaudeRequest),
                                s.totalOutputTokens >>
                        ELSE <<>>) >>],
          ops |-> << "releaseLock", "close" >>, completed |-> TRUE]

\* Lines 466-479: releaseLock, the usage, message_stop, close.  ops lists the
\* calls of reader.releaseLock and controller.close made; completed is FALSE
\* when an exception left the block before its end.
finallyTail(s, canEnqueue, originalClaudeRequest, tokenEstimator) ==
    IF ~canEnqueue
    THEN [state |-> s, ops |-> << "releaseLock" >>, completed |-> FALSE]
    ELSE [state |-> [s EXCEPT !.out = @ \o << MessageStop(
                        IF originalClaudeRequest # "none" /\ tokenEstimator
                        THEN << estimateMessages(originalClaudeRequest),
                                s.totalOutputTokens >>
                        ELSE <<>>) >>],
          ops |-> << "releaseLock", "close" >>, completed |-> TRUE]

\* Lines 456-465: what the result of the remainder does; only
\* totalOutputTokens is taken from it, not the indexes.
finallyFlushed(s, flushed, canEnqueue, originalClaudeRequest, tokenEstimator) ==
    IF flushed.exit # "none"
    THEN [state |-> [flushed EXCEPT !.exit = s.exit], ops |-> <<>>, completed |-> FALSE]
    ELSE finallyTail(flushed, canEnqueue, originalClaudeRequest, tokenEstimator)

\* Mutant of FlushResult: the figure of the remainder is not taken.
FlushResultNoTokens(s, result, canEnqueue) ==
    IF result.threw THEN [s EXCEPT !.exit = "lineError"]
    ELSE IF result.isNull THEN s
    ELSE EnqueueEvents([s EXCEPT !.accumulated = result.accumulated],
                       result.events, canEnqueue)

\* Lines 456-464 on the result of processLine(buffer.slice(6), ...).
FlushResult(s, result, canEnqueue) ==
    IF result.threw THEN [s EXCEPT !.exit = "lineError"]
    ELSE IF result.isNull THEN s
    ELSE EnqueueEvents([s EXCEPT !.totalOutputTokens =
                                     IF result.outputTokens # 0 THEN result.outputTokens
                                     ELSE @,
                                 !.accumulated = result.accumulated],
                       result.events, canEnqueue)

\* The finally block of lines 453-480.
finallyBlock(s, canEnqueue, originalClaudeRequest, tokenEstimator) ==
    IF IsBlank(s.buffer)
    THEN finallyTail(s, canEnqueue, originalClaudeRequest, tokenEstimator)
    ELSE finallyFlushed(s,
             FlushResult([s EXCEPT !.exit = "none"],
                         processLine(Slice(s.buffer, 6), s.textBlockIndex,
                                     s.toolUseBlockIndex, s.accumulated),
                         canEnqueue),
             canEnqueue, originalClaudeRequest, tokenEstimator)

(***************************************************************************)
(* convertToClaudeResponse                                                 *)
(***************************************************************************)
\* The content-type values tried; "" stands for a missing header.
ContentTypes == {"", "application/json", "text/event-stream; charset=utf-8"}

\* contentType.includes('text/event-stream')
IncludesEventStream(contentType) ==
    contentType \in {"text/event-stream", "text/event-stream; charset=utf-8"}

\* Mutant of convertToClaudeResponse: the check of response.ok is missing.
convertToClaudeResponseNoOkCheck(openaiResponse) ==
    IF IncludesEventStream(openaiResponse.contentType) THEN "stream" ELSE "normal"

\* Lines 29-40: which of the three ways out convertToClaudeResponse takes.
convertToClaudeResponse(openaiResponse) ==
    IF ~openaiResponse.ok THEN "passthrough"
    ELSE IF IncludesEventStream(openaiResponse.contentType) THEN "stream"
    ELSE "normal"

(***************************************************************************)
(* convertNormalResponse.  A field that may be missing is <<>> or <<v>>.   *)
(***************************************************************************)
None == <<>>

Some(v) == << v >>

\* A count that is there and not 0: what `x || 0` and `!x` go by.
Truthy(count) == count # None /\ count[1] # 0

OrZero(count) == IF Truthy(count) THEN count[1] ELSE 0

\* The upstream choices tried: with or without text, without tool_calls, with
\* an empty list of them, with one and with two, and each finish_reason.
Choices ==
    [content : {"", "A"},
     tool_calls : { None, Some(<<>>), Some(<< ToolCall("lookup", ArgsQX) >>),
                    Some(<< ToolCall("calc", ArgsNotJson), ToolCall("lookup", ArgsQX) >>) },
     finish_reason : {"stop", "length", "tool_calls"}]

\* A choice after the first one, which convertNormalResponse does not look at.
OtherChoice ==
    [content |-> "B", tool_calls |-> Some(<< ToolCall("calc", ArgsQX) >>),
     finish_reason |-> "length"]

Usages ==
    { None } \cup
    { Some(u) : u \in [prompt_tokens : { None, Some(0), Some(7) },
                       completion_tokens : { None, Some(0), Some(5) }] }

\* What openaiResponse.json() may give.
OpenAIDatas ==
    [choices : { None, Some(<<>>) } \cup { Some(<< c >>) : c \in Choices }
                   \cup { Some(<< c, OtherChoice >>) : c \in Choices },
     usage : Usages]

TextBlock(text) == [type |-> "text", text |-> text, name |-> "", input |-> ""]

RECURSIVE ToolUseBlocks(_)
\* Lines 168-175: a tool_use block for each element of message.tool_calls.
ToolUseBlocks(tool_calls) ==
    IF tool_calls = <<>> THEN <<>>
    ELSE << [type |-> "tool_use", text |-> "", name |-> Head(tool_calls).name,
             input |-> safeJsonParse(Head(tool_calls).arguments)] >>
         \o ToolUseBlocks(Tail(tool_calls))

\* Line 156.
HasChoice(data) == data.choices # None /\ data.choices[1] # <<>>

\* Lines 160-176: the content built from the first choice's message.
MessageContent(message) ==
    (IF message.content # "" THEN << TextBlock(message.content) >> ELSE <<>>)
    \o (IF message.tool_calls # None THEN ToolUseBlocks(message.tool_calls[1]) ELSE <<>>)

\* Lines 167-181: `if (message.tool_calls)` holds for any list, an empty one
\* too.
StopReason(choice) ==
    IF choice.tool_calls # None THEN "tool_use"
    ELSE IF choice.finish_reason = "length" THEN "max_tokens"
    ELSE "end_turn"

RECURSIVE estimateClaudeContent(_)
\* estimateClaudeContent(blocks) -> count
estimateClaudeContent(content) ==
    IF content = <<>> THEN 0
    ELSE (IF Head(content).type = "text" THEN estimate(Head(content).text)
          ELSE estimate(Head(content).name) + estimate(JsonStringify(Head(content).input)))
         + estimateClaudeContent(Tail(content))

\* Mutant of NormalUsage: when only the output count is missing the input is
\* estimated as well.
NormalUsageEstimatesBoth(usage, content, originalClaudeRequest) ==
    IF usage = None /\ originalClaudeRequest # "none"
    THEN << estimateMessages(originalClaudeRequest), estimateClaudeContent(content) >>
    ELSE IF (usage = None \/ ~Truthy(usage[1].completion_tokens)) /\ content # <<>>
    THEN << estimateMessages(originalClaudeRequest), estimateClaudeContent(content) >>
    ELSE << IF usage = None THEN 0 ELSE OrZero(usage[1].prompt_tokens),
            IF usage = None THEN 0 ELSE OrZero(usage[1].completion_tokens) >>

\* Lines 184-200: << input_tokens, output_tokens >>.
NormalUsage(usage, content, originalClaudeRequest) ==
    IF usage = None /\ originalClaudeRequest # "none"
    THEN << estimateMessages(originalClaudeRequest), estimateClaudeContent(content) >>
    ELSE IF (usage = None \/ ~Truthy(usage[1].completion_tokens)) /\ content # <<>>
    THEN << IF usage = None THEN 0 ELSE OrZero(usage[1].prompt_tokens),
            estimateClaudeContent(content) >>
    ELSE << IF usage = None THEN 0 ELSE OrZero(usage[1].prompt_tokens),
            IF usage = None THEN 0 ELSE OrZero(usage[1].completion_tokens) >>

\* Lines 149-200 once the content is known.
NormalResponse(data, content, originalClaudeRequest) ==
    [content |-> content,
     stop_reason |-> IF HasChoice(data) THEN StopReason(data.choices[1][1]) ELSE "unset",
     usage |-> NormalUsage(data.usage, content, originalClaudeRequest)]

\* Lines 147-200: the Claude response built from the parsed upstream body.
convertNormalResponse(data, originalClaudeRequest) ==
    NormalResponse(data,
                   IF HasChoice(data) THEN MessageContent(data.choices[1][1]) ELSE <<>>,
                   originalClaudeRequest)

(***************************************************************************)
(* handle: the checks on the inbound request before the upstream call.     *)
(***************************************************************************)
Methods == {"GET", "POST"}

\* What may stand between two slashes of the path; "" between two slashes
\* that follow each other, or after a last one.
Segments == {"", "openai", "gemini", "other", "host", "v1", "messages"}

Pathnames == UNION { [1..n -> Segments] : n \in 0..MaxPathParts }

\* The requests tried: apiKey is headers.get('x-api-key'), None for null;
\* jsonOk says whether the body parses as JSON.
Requests ==
    [method : Methods, pathname : Pathnames, apiKey : { None, Some(""), Some("key") },
     jsonOk : BOOLEAN]

\* Line 542: url.pathname.split('/').filter(part => part !== '')
PathParts(pathname) == SelectSeq(pathname, LAMBDA part : part # "")

\* handle returned a response of its own, without an upstream call.
Refused(status) == [stage |-> "done", status |-> status, fetched |-> FALSE]

\* handle has not been called.
NotHandled == [stage |-> "none", status |-> 0, fetched |-> FALSE]

\* Mutant of handleParts: the x-api-key header is not checked.
handlePartsNoKeyCheck(req, pathParts) ==
    IF req.method # "POST" THEN Refused(405)
    ELSE IF Len(pathParts) < 3 THEN Refused(400)
    ELSE IF pathParts[Len(pathParts) - 1] # "v1" \/ pathParts[Len(pathParts)] # "messages"
    THEN Refused(404)
    ELSE IF pathParts[1] = "" \/ SubSeq(pathParts, 2, Len(pathParts) - 2) = <<>>
    THEN Refused(400)
    ELSE IF pathParts[1] \notin {"gemini", "openai"} THEN Refused(400)
    ELSE IF ~req.jsonOk THEN Refused(500)
    ELSE [stage |-> "fetching", status |-> 0, fetched |-> TRUE]

\* Lines 537-579 once pathParts is at hand, up to the call of fetch.  The
\* joined baseUrl is empty exactly when there is no part between the type and
\* /v1/messages.  When request.clone().json() throws, the exception leaves
\* handle and the caller answers 500 (lines 528-531).
handleParts(req, pathParts) ==
    IF req.method # "POST" THEN Refused(405)
    ELSE IF Len(pathParts) < 3 THEN Refused(400)
    ELSE IF pathParts[Len(pathParts) - 1] # "v1" \/ pathParts[Len(pathParts)] # "messages"
    THEN Refused(404)
    ELSE IF pathParts[1] = "" \/ SubSeq(pathParts, 2, Len(pathParts) - 2) = <<>>
    THEN Refused(400)
    ELSE IF req.apiKey = None \/ req.apiKey[1] = "" THEN Refused(401)
    ELSE IF pathParts[1] \notin {"gemini", "openai"} THEN Refused(400)
    ELSE IF ~req.jsonOk THEN Refused(500)
    ELSE [stage |-> "fetching", status |-> 0, fetched |-> TRUE]

\* Lines 536-579.
handle(req) == handleParts(req, PathParts(req.pathname))

\* The statuses an upstream response may carry.
UpstreamStatuses == {200, 429}

(***************************************************************************)
(* Upstream bodies                                                         *)
(***************************************************************************)
Data(sym) == DataMarker \o << sym >>

\* The complete lines an upstream body is made of: three data lines with
\* events or without, an unparsable one, the sentinel, a blank one (the CR of
\* a CR LF pair) and one that is no data line.
LineLib ==
    << Data("pTextA"), Data("pMixed"), Data("pNoChoices"), Data("pBad"), Data(DONE),
       << CR >>, << LeadByte, ContByte >> >>

\* What may follow the last line feed.
Remainders ==
    { <<>>, Data("pTextB"), Data(DONE), << " " >>, << SIX, "pTool" >> }

RECURSIVE Prefixes(_)
\* Every run of complete lines, each ended by a line feed, of at most n symbols.
Prefixes(n) ==
    { <<>> } \cup
    UNION { { LineLib[i] \o << LF >> \o p : p \in Prefixes(n - Len(LineLib[i]) - 1) } :
            i \in { k \in 1..Len(LineLib) : Len(LineLib[k]) + 1 <= n } }

Bodies ==
    UNION { { p \o r : p \in Prefixes(MaxBodyLen - Len(r)) } :
            r \in { q \in Remainders : Len(q) <= MaxBodyLen } }

\* The payloads the callback is called with directly in SpecCallback.
CallPayloads ==
    { << d >> : d \in DocumentNames } \cup { << DONE >>, <<>>, << "pTextA", CR >> }

VARIABLES
    response,                \* the upstream response: ok, contentType, hasBody
    originalClaudeRequest,   \* "request", or "none" when the caller gave none
    tokenEstimator,          \* whether processProviderStream was given an estimator
    openaiData,              \* what openaiResponse.json() yields in convertNormalResponse
    claudeResponse,          \* what convertNormalResponse built
    request,                 \* SpecHandle: the request handle is called with
    handled,                 \* SpecHandle: what handle did with it
    body,                    \* the bytes of the upstream body
    pos,                     \* how many of them reader.read() has handed out
    pc,                      \* "new", "awaitRead", "resolved", "rejected", "returned"
    returned,                \* what convertToClaudeResponse returned
    bodyUsed,                \* json() or getReader() was called on the upstream body
    exit,                    \* how the try block of start was left
    pending,                 \* the decoder's held-back byte
    buffer,
    textBlockIndex,
    toolUseBlockIndex,
    totalOutputTokens,
    accumulatedOutputTokens,
    out,                     \* the events enqueued on the controller, in order
    ops,                     \* the calls of releaseLock and close, in order
    reads,                   \* the number of reader.read() calls issued
    consumer,                \* "reading", "stopped", "cancelled"
    callArg,                 \* SpecCallback: the arguments of the direct calls
    calls                    \* SpecCallback: the results of the direct calls

vars ==
    << response, originalClaudeRequest, tokenEstimator, openaiData, claudeResponse,
       request, handled, body, pos, pc, returned, bodyUsed, exit, pending,
       buffer, textBlockIndex, toolUseBlockIndex, totalOutputTokens,
       accumulatedOutputTokens, out, ops, reads, consumer, callArg, calls >>

upstreamVars == << response, originalClaudeRequest, tokenEstimator, openaiData, body >>

streamVars ==
    << pending, buffer, textBlockIndex, toolUseBlockIndex, totalOutputTokens,
       accumulatedOutputTokens, out >>

NoCallArg == [jsonStr |-> <<>>, textBlockIndex |-> 0, toolUseBlockIndex |-> 0]

NoData == "none"

NoRequest == "none"

\* The state before start(controller) has run.
Fresh ==
    /\ pos = 0
    /\ pc = "new"
    /\ returned = "nothing"
    /\ bodyUsed = FALSE
    /\ exit = "none"
    /\ pending = ""
    /\ buffer = <<>>
    /\ textBlockIndex = 0
    /\ toolUseBlockIndex = 0
    /\ totalOutputTokens = 0
    /\ accumulatedOutputTokens = 0
    /\ out = <<>>
    /\ ops = <<>>
    /\ reads = 0
    /\ consumer = "reading"
    /\ calls = <<>>
    /\ claudeResponse = "none"

Init ==
    /\ response \in [ok : BOOLEAN, contentType : ContentTypes, hasBody : BOOLEAN]
    /\ originalClaudeRequest \in {"request", "none"}
    /\ body \in IF convertToClaudeResponse(response) = "stream" /\ response.hasBody
                THEN Bodies ELSE { <<>> }
    /\ tokenEstimator = TRUE
    /\ openaiData \in IF convertToClaudeResponse(response) = "normal" /\ response.hasBody
                      THEN OpenAIDatas ELSE { NoData }
    /\ request = NoRequest
    /\ handled = NotHandled
    /\ callArg = NoCallArg
    /\ Fresh

\* The locals of start as a record, and back.
Locals ==
    [pending |-> pending, buffer |-> buffer, textBlockIndex |-> textBlockIndex,
     toolUseBlockIndex |-> toolUseBlockIndex, totalOutputTokens |-> totalOutputTokens,
     accumulated |-> accumulatedOutputTokens, out |-> out, exit |-> "none"]

Store(s) ==
    /\ pending' = s.pending
    /\ buffer' = s.buffer
    /\ textBlockIndex' = s.textBlockIndex
    /\ toolUseBlockIndex' = s.toolUseBlockIndex
    /\ totalOutputTokens' = s.totalOutputTokens
    /\ accumulatedOutputTokens' = s.accumulated
    /\ out' = s.out

\* Line 29-31: a non-success response is returned as it is.
ReturnUpstreamResponse ==
    /\ pc = "new"
    /\ convertToClaudeResponse(response) = "passthrough"
    /\ pc' = "returned"
    /\ returned' = "upstream response"
    /\ UNCHANGED << upstreamVars, request, handled, claudeResponse, pos, bodyUsed, exit, streamVars,
                    ops, reads, consumer, callArg, calls >>

\* Line 39, lines 143-207: convertNormalResponse reads the body as JSON and
\* returns a new response; json() rejects when there is no body to parse.
ConvertNormalResponse ==
    /\ pc = "new"
    /\ convertToClaudeResponse(response) = "normal"
    /\ IF response.hasBody
       THEN /\ claudeResponse' = convertNormalResponse(openaiData, originalClaudeRequest)
            /\ pc' = "returned"
            /\ returned' = "json response"
            /\ bodyUsed' = TRUE
       ELSE /\ pc' = "rejected"
            /\ UNCHANGED << claudeResponse, returned, bodyUsed >>
    /\ UNCHANGED << upstreamVars, request, handled, pos, exit, streamVars,
                    ops, reads, consumer, callArg, calls >>

\* Mutant of ConvertStreamResponse: message_start is sent before the body is
\* looked at.
ConvertStreamResponseStartFirst ==
    /\ pc = "new"
    /\ convertToClaudeResponse(response) = "stream"
    /\ returned' = "event stream"
    /\ out' = << MessageStart >>
    /\ IF ~response.hasBody
       THEN /\ ops' = << "close" >>
            /\ pc' = "resolved"
            /\ UNCHANGED << reads, bodyUsed >>
       ELSE /\ reads' = 1
            /\ bodyUsed' = TRUE
            /\ pc' = "awaitRead"
            /\ UNCHANGED ops
    /\ UNCHANGED << upstreamVars, request, handled, claudeResponse, pos, exit, pending,
                    buffer, textBlockIndex, toolUseBlockIndex, totalOutputTokens,
                    accumulatedOutputTokens, consumer, callArg, calls >>

\* Line 37: convertStreamResponse -> processProviderStream; the constructor of
\* ReadableStream runs start(controller) up to its first await (lines 407-423).
ConvertStreamResponse ==
    /\ pc = "new"
    /\ convertToClaudeResponse(response) = "stream"
    /\ returned' = "event stream"
    /\ IF ~response.hasBody
       THEN /\ ops' = << "close" >>
            /\ pc' = "resolved"
            /\ UNCHANGED << out, reads, bodyUsed >>
       ELSE /\ out' = << MessageStart >>
            /\ reads' = 1
            /\ bodyUsed' = TRUE
            /\ pc' = "awaitRead"
            /\ UNCHANGED ops
    /\ UNCHANGED << upstreamVars, request, handled, claudeResponse, pos, exit, pending, buffer,
                    textBlockIndex, toolUseBlockIndex, totalOutputTokens,
                    accumulatedOutputTokens, consumer, callArg, calls >>

\* The promise of start settles after the finally block f.
Settle(f, how) ==
    /\ Store(f.state)
    /\ ops' = ops \o f.ops
    /\ exit' = how
    /\ pc' = IF how = "done" /\ f.completed THEN "resolved" ELSE "rejected"

\* The end of start: the finally block with the locals s, the try block left by how.
Finish(s, how) ==
    Settle(finallyBlock(s, consumer # "cancelled", originalClaudeRequest, tokenEstimator),
           how)

\* After one chunk: the next reader.read(), or the end of start on an exception.
AfterChunk(s) ==
    IF s.exit = "none"
    THEN /\ Store(s)
         /\ reads' = reads + 1
         /\ UNCHANGED << pc, exit, ops >>
    ELSE /\ Finish(s, s.exit)
         /\ UNCHANGED reads

\* reader.read() resolves with the next n bytes (lines 423-452).
ReadChunk ==
    /\ pc = "awaitRead"
    /\ \E n \in 1..(Len(body) - pos) :
         /\ pos' = pos + n
         /\ AfterChunk(processChunk(Locals, SubSeq(body, pos + 1, pos + n),
                                    consumer # "cancelled"))
    /\ UNCHANGED << upstreamVars, request, handled, claudeResponse, returned, bodyUsed, consumer,
                    callArg, calls >>

\* reader.read() resolves with done (line 424).
ReadDone ==
    /\ pc = "awaitRead"
    /\ pos = Len(body)
    /\ Finish(Locals, "done")
    /\ UNCHANGED << upstreamVars, request, handled, claudeResponse, pos, returned, bodyUsed, reads,
                    consumer, callArg, calls >>

\* reader.read() rejects (line 423 throws).
ReadFail ==
    /\ pc = "awaitRead"
    /\ Finish(Locals, "readError")
    /\ UNCHANGED << upstreamVars, request, handled, claudeResponse, pos, returned, bodyUsed, reads,
                    consumer, callArg, calls >>

\* The consumer of the outbound stream stops reading it.
ConsumerStop ==
    /\ pc = "awaitRead"
    /\ consumer = "reading"
    /\ consumer' = "stopped"
    /\ UNCHANGED << upstreamVars, request, handled, claudeResponse, pos, pc, returned, bodyUsed, exit,
                    streamVars, ops, reads, callArg, calls >>

\* The consumer cancels the outbound stream; start gave no cancel handler.
ConsumerCancel ==
    /\ pc = "awaitRead"
    /\ consumer \in {"reading", "stopped"}
    /\ consumer' = "cancelled"
    /\ UNCHANGED << upstreamVars, request, handled, claudeResponse, pos, pc, returned, bodyUsed, exit,
                    streamVars, ops, reads, callArg, calls >>

Next ==
    \/ ReturnUpstreamResponse
    \/ ConvertNormalResponse
    \/ ConvertStreamResponse
    \/ ReadChunk
    \/ ReadDone
    \/ ReadFail
    \/ ConsumerStop
    \/ ConsumerCancel

Spec == Init /\ [][Next]_vars

(***************************************************************************)
(* The callback called directly, several times with the same arguments,    *)
(* inside one convertStreamResponse (one closure).                         *)
(***************************************************************************)
InitCallback ==
    /\ response = [ok |-> TRUE, contentType |-> "text/event-stream; charset=utf-8",
                   hasBody |-> TRUE]
    /\ originalClaudeRequest = "none"
    /\ body = <<>>
    /\ tokenEstimator = TRUE
    /\ openaiData = NoData
    /\ request = NoRequest
    /\ handled = NotHandled
    /\ callArg \in [jsonStr : CallPayloads, textBlockIndex : 0..MaxIndex,
                    toolUseBlockIndex : 0..MaxIndex]
    /\ Fresh

CallProcessLine ==
    /\ Len(calls) < MaxCalls
    /\ LET result == processLine(callArg.jsonStr, callArg.textBlockIndex,
                                 callArg.toolUseBlockIndex, accumulatedOutputTokens)
       IN  /\ calls' = Append(calls, result)
           /\ accumulatedOutputTokens' = result.accumulated
    /\ UNCHANGED << upstreamVars, request, handled, claudeResponse, pos, pc, returned, bodyUsed, exit,
                    pending, buffer, textBlockIndex, toolUseBlockIndex, totalOutputTokens,
                    out, ops, reads, consumer, callArg >>

NextCallback == CallProcessLine

SpecCallback == InitCallback /\ [][NextCallback]_vars

(***************************************************************************)
(* processProviderStream called directly, with or without its two optional *)
(* arguments (lines 395-400).                                              *)
(***************************************************************************)
InitStream ==
    /\ response \in [ok : {TRUE}, contentType : {"text/event-stream; charset=utf-8"},
                     hasBody : BOOLEAN]
    /\ originalClaudeRequest \in {"request", "none"}
    /\ tokenEstimator \in BOOLEAN
    /\ body \in IF response.hasBody THEN Bodies ELSE { <<>> }
    /\ openaiData = NoData
    /\ request = NoRequest
    /\ handled = NotHandled
    /\ callArg = NoCallArg
    /\ Fresh

NextStream ==
    \/ ConvertStreamResponse
    \/ ReadChunk
    \/ ReadDone
    \/ ReadFail
    \/ ConsumerStop
    \/ ConsumerCancel

SpecStream == InitStream /\ [][NextStream]_vars

(***************************************************************************)
(* handle called with a request (lines 526-581).                           *)
(***************************************************************************)
InitHandle ==
    /\ request \in Requests
    /\ handled = [stage |-> "new", status |-> 0, fetched |-> FALSE]
    /\ response = [ok |-> TRUE, contentType |-> "application/json", hasBody |-> TRUE]
    /\ originalClaudeRequest = "none"
    /\ tokenEstimator = TRUE
    /\ openaiData = NoData
    /\ body = <<>>
    /\ callArg = NoCallArg
    /\ Fresh

\* Lines 536-579: handle runs up to a response of its own or the upstream call.
Handle ==
    /\ handled.stage = "new"
    /\ handled' = handle(request)
    /\ UNCHANGED << upstreamVars, request, claudeResponse, pos, pc, returned, bodyUsed,
                    exit, streamVars, ops, reads, consumer, callArg, calls >>

\* Lines 579-580: fetch resolves and the response made of it carries the
\* upstream status; or fetch rejects and the caller answers 500 (528-531).
UpstreamResponds ==
    /\ handled.stage = "fetching"
    /\ \E status \in UpstreamStatuses \cup {500} :
          handled' = [handled EXCEPT !.stage = "done", !.status = status]
    /\ UNCHANGED << upstreamVars, request, claudeResponse, pos, pc, returned, bodyUsed,
                    exit, streamVars, ops, reads, consumer, callArg, calls >>

NextHandle ==
    \/ Handle
    \/ UpstreamResponds

SpecHandle == InitHandle /\ [][NextHandle]_vars

(***************************************************************************)
(* Vocabulary of the claims                                                *)
(***************************************************************************)
\* A streaming response with a readable body was converted.
Streaming == returned = "event stream" /\ response.hasBody

\* start(controller) has ended.
Settled == pc \in {"resolved", "rejected"}

\* The positions in a sequence of events that hold an event of one type.
Positions(events, type) == { i \in 1..Len(events) : events[i].type = type }

\* The positions of the content_block_start events of one kind of block.
StartsOf(events, block) ==
    { i \in Positions(events, "content_block_start") : events[i].block = block }

IsPrefix(a, b) == Len(a) <= Len(b) /\ SubSeq(b, 1, Len(a)) = a

\* The locals of start before the first read.
FirstLocals ==
    [pending |-> "", buffer |-> <<>>, textBlockIndex |-> 0, toolUseBlockIndex |-> 0,
     totalOutputTokens |-> 0, accumulated |-> 0, out |-> << MessageStart >>,
     exit |-> "none"]

\* The events of a run that gets the whole body in one read.
OneReadOut ==
    finallyBlock(processChunk(FirstLocals, body, TRUE), TRUE, originalClaudeRequest,
                 TRUE).state.out

\* The complete lines of the body, as the decoder gives them.
CompleteLines ==
    LET lines == Split(Decode("", body).text) IN SubSeq(lines, 1, Len(lines) - 1)

\* The data lines among them whose payload is the provider's JSON shape.
WellFormed(line) ==
    /\ Actionable(line)
    /\ ~JsonParse(Slice(line, 6)).threw
    /\ LET choices == JsonParse(Slice(line, 6)).value.choices
       IN  choices = <<>> \/ choices[1].hasDelta

\* The fragments of a delta that the spec makes blocks of: the text first,
\* then the tool calls that carry a name and arguments, in the listed order.
RECURSIVE ToolFragments(_)
ToolFragments(tool_calls) ==
    IF tool_calls = <<>> THEN <<>>
    ELSE (IF Head(tool_calls).name # "" /\ Head(tool_calls).arguments # ""
          THEN << [block |-> "tool_use", name |-> Head(tool_calls).name,
                   data |-> JsonStringify(safeJsonParse(Head(tool_calls).arguments))] >>
          ELSE <<>>) \o ToolFragments(Tail(tool_calls))

Fragments(line) ==
    LET choices == JsonParse(Slice(line, 6)).value.choices IN
    IF ~WellFormed(line) \/ choices = <<>> THEN <<>>
    ELSE (IF choices[1].content # ""
          THEN << [block |-> "text", name |-> "", data |-> choices[1].content] >>
          ELSE <<>>) \o ToolFragments(choices[1].tool_calls)

RECURSIVE FragmentsOfLines(_)
FragmentsOfLines(lines) ==
    IF lines = <<>> THEN <<>> ELSE Fragments(Head(lines)) \o FragmentsOfLines(Tail(lines))

\* The blocks of a sequence of events: kind, name and payload of each
\* content_block_start with the delta that follows it.
RECURSIVE BlocksOf(_)
BlocksOf(events) ==
    IF events = <<>> THEN <<>>
    ELSE IF Head(events).type = "content_block_start" /\ Len(events) >= 2
    THEN << [block |-> Head(events).block, name |-> Head(events).name,
             data |-> events[2].data] >> \o BlocksOf(Tail(events))
    ELSE BlocksOf(Tail(events))

(***************************************************************************)
(* Claims                                                                  *)
(***************************************************************************)
\* C1 (as claimed): whatever the split of the upstream bytes into reads, the
\* events emitted are those of the run that gets all bytes in one read.
ChunkBoundaryInvariance ==
    (Streaming /\ Settled /\ consumer # "cancelled" /\ exit # "readError")
        => out = OneReadOut

\* C2 (as claimed): on every exit path of the read loop the outbound stream
\* holds exactly one message_start, first, and exactly one message_stop, last,
\* and is then closed.
MessageFraming ==
    (Streaming /\ Settled /\ consumer # "cancelled")
        => /\ Positions(out, "message_start") = {1}
           /\ Positions(out, "message_stop") = {Len(out)}
           /\ Len(ops) > 0
           /\ ops[Len(ops)] = "close"

\* C3: every content_block_start with index i is followed at once by one
\* content_block_delta of the same block and index, which is followed at once
\* by one content_block_stop with index i; no delta or stop stands elsewhere.
BlockTriples ==
    \A i \in 1..Len(out) :
        /\ out[i].type = "content_block_start" =>
              /\ i + 2 <= Len(out)
              /\ out[i + 1].type = "content_block_delta"
              /\ out[i + 1].index = out[i].index
              /\ out[i + 1].block = (IF out[i].block = "text" THEN "text_delta"
                                     ELSE "input_json_delta")
              /\ out[i + 2].type = "content_block_stop"
              /\ out[i + 2].index = out[i].index
        /\ out[i].type = "content_block_delta" =>
              i > 1 /\ out[i - 1].type = "content_block_start"
        /\ out[i].type = "content_block_stop" =>
              i > 1 /\ out[i - 1].type = "content_block_delta"

\* C3 witness: a finished stream with a text block and a tool_use block.
BlockTriplesWitness ==
    /\ Streaming /\ Settled
    /\ StartsOf(out, "text") # {}
    /\ StartsOf(out, "tool_use") # {}
    /\ out[Len(out)].type = "message_stop"

\* C4 (as claimed): a data line whose payload cannot be parsed is skipped and
\* the stream goes on: every well-formed line of the body gets its blocks and
\* the stream ends with message_stop.
FramingErrorIsolation ==
    (Streaming /\ Settled /\ consumer # "cancelled" /\ exit # "readError")
        => /\ IsPrefix(FragmentsOfLines(CompleteLines), BlocksOf(out))
           /\ out[Len(out)].type = "message_stop"

\* C5 (as claimed): no two content_block_start events of one stream carry the
\* same index.
UniqueBlockIndexes ==
    \A i, j \in Positions(out, "content_block_start") :
        i # j => out[i].index # out[j].index

\* C6 (as claimed): on every exit path of the read loop the reader's lock is
\* released exactly once, and then the outbound stream is closed.
ReaderReleasedOnce ==
    (Streaming /\ Settled /\ consumer # "cancelled")
        => ops = << "releaseLock", "close" >>

\* C7 (as claimed): once the consumer has stopped reading or has cancelled,
\* no further reader.read() is issued.
NoReadAfterConsumerStops == [][consumer # "reading" => reads' = reads]_vars

\* C8: a response that is not ok is returned as it is: its body is not read,
\* no event is made and nothing is mapped.
NonSuccessPassthrough ==
    ~response.ok =>
        /\ returned \in {"nothing", "upstream response"}
        /\ pc # "new" => returned = "upstream response"
        /\ ~bodyUsed
        /\ reads = 0
        /\ out = <<>>
        /\ ops = <<>>

\* C8 witness: a failed response that announces an event stream and has a
\* body was returned.
NonSuccessPassthroughWitness ==
    /\ ~response.ok
    /\ IncludesEventStream(response.contentType)
    /\ response.hasBody
    /\ pc = "returned"

\* What the caller of the callback gets back.
Returned(result) ==
    [threw |-> result.threw, isNull |-> result.isNull, events |-> result.events,
     textBlockIndex |-> result.textBlockIndex,
     toolUseBlockIndex |-> result.toolUseBlockIndex,
     outputTokens |-> IF result.threw \/ result.isNull THEN 0 ELSE result.outputTokens]

\* The estimate of the fragments of one payload.
RECURSIVE EstimateOf(_)
EstimateOf(fragments) ==
    IF fragments = <<>> THEN 0
    ELSE (IF Head(fragments).block = "text" THEN estimate(Head(fragments).data)
          ELSE estimate(Head(fragments).name) + estimate(Head(fragments).data))
         + EstimateOf(Tail(fragments))

\* C9 (as claimed): two calls of the callback with the same payload and the
\* same indexes give the same result, the token figure included.
CallbackIdempotent ==
    \A i, j \in 1..Len(calls) : Returned(calls[i]) = Returned(calls[j])

\* C9 (amended): the calls give the same fragments and the same indexes; the
\* token figure is the running total of the closure, so the n-th call reports
\* n times the estimate of the payload's fragments.
CallbackRepeatable ==
    \A i, j \in 1..Len(calls) :
        /\ [Returned(calls[i]) EXCEPT !.outputTokens = 0]
               = [Returned(calls[j]) EXCEPT !.outputTokens = 0]
        /\ (~calls[i].threw /\ ~calls[i].isNull) =>
               calls[i].outputTokens
                   = i * EstimateOf(Fragments(DataMarker \o callArg.jsonStr))

\* C9 witness: the callback was called twice with a payload that has
\* fragments.
CallbackRepeatableWitness ==
    /\ Len(calls) >= 2
    /\ calls[1].events # <<>>
    /\ calls[2].outputTokens > calls[1].outputTokens

\* C10: text and tool blocks count separately from 0: the k-th text block and
\* the k-th tool_use block emitted carry index k-1; and when the stream ends
\* without an exception the blocks of the complete lines come in the order of
\* the lines, within a line the text first and then the tool calls as listed.
IndependentCounters ==
    /\ \A block \in {"text", "tool_use"} :
          \A i \in StartsOf(out, block) :
              out[i].index = Cardinality({ j \in StartsOf(out, block) : j < i })
    /\ (Streaming /\ pc = "resolved" /\ consumer # "cancelled")
          => IsPrefix(FragmentsOfLines(CompleteLines), BlocksOf(out))

\* C10 witness: a stream that ended normally after a second text block that
\* followed a second tool_use block.
IndependentCountersWitness ==
    /\ Streaming /\ pc = "resolved"
    /\ \E i \in StartsOf(out, "tool_use"), j \in StartsOf(out, "text") :
          i < j /\ out[i].index = 1 /\ out[j].index = 1

\* Two runs of the finally block end the same way, usage apart.
SameOutcome(f, g) ==
    /\ f.completed = g.completed
    /\ f.ops = g.ops
    /\ Len(f.state.out) = Len(g.state.out)
    /\ \A i \in 1..Len(f.state.out) : f.state.out[i].type = g.state.out[i].type

\* C11: a message_stop carries usage exactly when both the original request
\* and the token estimator were given to processProviderStream; and leaving
\* either out changes nothing else about how the stream ends: the finally
\* block completes, releases and closes, and emits the same events as it
\* would with both.
UsageOnlyWithBothSupplied ==
    /\ \A i \in Positions(out, "message_stop") :
          (out[i].usage # <<>>) <=> (originalClaudeRequest # "none" /\ tokenEstimator)
    /\ (pc = "awaitRead" /\ ~(originalClaudeRequest # "none" /\ tokenEstimator)) =>
          SameOutcome(finallyBlock(Locals, consumer # "cancelled",
                                   originalClaudeRequest, tokenEstimator),
                      finallyBlock(Locals, consumer # "cancelled", "request", TRUE))

UsageOnlyWithBothSuppliedWitness ==
    /\ Streaming
    /\ pc = "resolved"
    /\ originalClaudeRequest = "request"
    /\ ~tokenEstimator
    /\ Len(out) > 2
    /\ out[Len(out)].type = "message_stop"
    /\ out[Len(out)].usage = <<>>

\* C12: when the upstream response has no body, the outbound stream is closed
\* at once: no event is enqueued, not even message_start, no reader is taken
\* and no read is issued.
NoBodyClosesAtOnce ==
    (returned = "event stream" /\ ~response.hasBody) =>
        /\ out = <<>>
        /\ ops = << "close" >>
        /\ reads = 0
        /\ ~bodyUsed
        /\ pc = "resolved"

NoBodyClosesAtOnceWitness ==
    /\ returned = "event stream"
    /\ ~response.hasBody
    /\ ops = << "close" >>
    /\ out = <<>>

\* What follows the last line feed of the body.
Remainder ==
    LET lines == Split(Decode("", body).text) IN lines[Len(lines)]

\* C13 (as claimed): the remainder in the buffer at the end of the stream
\* goes by the line rule of the loop: one that does not begin with the data
\* marker, or that is the [DONE] sentinel, gives no event and does not keep
\* message_stop from being sent.
RemainderUsesLineRule ==
    (Streaming /\ Settled /\ exit = "done" /\ consumer # "cancelled"
               /\ ~Actionable(Remainder))
        => /\ BlocksOf(out) = FragmentsOfLines(CompleteLines)
           /\ out[Len(out)].type = "message_stop"

ReceivedLines ==
    LET lines == Split(Decode("", SubSeq(body, 1, pos)).text)
    IN  SubSeq(lines, 1, Len(lines) - 1)

\* C15: whenever a read of the upstream body is outstanding, the blocks
\* enqueued so far are those of the complete lines received so far, in the
\* order of the lines: every event of a line is enqueued before the next read
\* is issued, and none of a line that has not ended yet.
EventsInLineOrder ==
    (Streaming /\ pc = "awaitRead") =>
        BlocksOf(out) = FragmentsOfLines(ReceivedLines)

\* C15 witness: a read is outstanding after two lines with blocks came in.
EventsInLineOrderWitness ==
    /\ Streaming /\ pc = "awaitRead"
    /\ Len(ReceivedLines) >= 2
    /\ Len(BlocksOf(out)) >= 3
    /\ pos < Len(body)

\* The tool calls the first choice's message lists.
ToolCallsOf(data) ==
    IF data.choices[1][1].tool_calls = None THEN <<>> ELSE data.choices[1][1].tool_calls[1]

\* The tool_use blocks of a content, in order.
ToolUseNames(content) ==
    [i \in 1..Len(SelectSeq(content, LAMBDA b : b.type = "tool_use")) |->
        SelectSeq(content, LAMBDA b : b.type = "tool_use")[i].name]

\* C16 (as claimed): for an upstream response with at least one choice the
\* stop_reason is tool_use exactly when the first choice's message has at
\* least one tool call, else max_tokens exactly when its finish_reason is
\* length, else end_turn; and there is one tool_use block for each tool call.
StopReasonMapping ==
    (returned = "json response" /\ HasChoice(openaiData)) =>
        /\ claudeResponse.stop_reason =
              (IF ToolCallsOf(openaiData) # <<>> THEN "tool_use"
               ELSE IF openaiData.choices[1][1].finish_reason = "length" THEN "max_tokens"
               ELSE "end_turn")
        /\ ToolUseNames(claudeResponse.content)
              = [i \in 1..Len(ToolCallsOf(openaiData)) |-> ToolCallsOf(openaiData)[i].name]

\* C17 (as claimed): usage is the upstream's counts when it reports them; the
\* two estimates when it reports no usage; the upstream's input count and the
\* estimate of the content when only the completion count is missing; and
\* always two non-negative integers.
UsageFallbackAsClaimed ==
    returned = "json response" =>
        /\ (openaiData.usage # None /\ openaiData.usage[1].prompt_tokens # None
                /\ openaiData.usage[1].completion_tokens # None) =>
              claudeResponse.usage = << openaiData.usage[1].prompt_tokens[1],
                                        openaiData.usage[1].completion_tokens[1] >>
        /\ openaiData.usage = None =>
              claudeResponse.usage = << estimateMessages(originalClaudeRequest),
                                        estimateClaudeContent(claudeResponse.content) >>
        /\ (openaiData.usage # None /\ openaiData.usage[1].prompt_tokens # None
                /\ openaiData.usage[1].completion_tokens = None) =>
              claudeResponse.usage = << openaiData.usage[1].prompt_tokens[1],
                                        estimateClaudeContent(claudeResponse.content) >>
        /\ claudeResponse.usage[1] \in Nat
        /\ claudeResponse.usage[2] \in Nat

\* The completion count is reported and counts as reported: it is not 0, or
\* there is no content to estimate instead.
CompletionReported(data, content) ==
    /\ data.usage[1].completion_tokens # None
    /\ data.usage[1].completion_tokens[1] # 0 \/ content = <<>>

\* C17 (amended): as claimed, but a reported completion count of 0 counts as
\* missing when the response has content, and without an original request the
\* input count of a response without usage is 0.
UsageFallback ==
    returned = "json response" =>
        /\ (openaiData.usage # None /\ openaiData.usage[1].prompt_tokens # None
                /\ CompletionReported(openaiData, claudeResponse.content)) =>
              claudeResponse.usage = << openaiData.usage[1].prompt_tokens[1],
                                        openaiData.usage[1].completion_tokens[1] >>
        /\ openaiData.usage = None =>
              claudeResponse.usage = << IF originalClaudeRequest # "none"
                                        THEN estimateMessages(originalClaudeRequest)
                                        ELSE 0,
                                        estimateClaudeContent(claudeResponse.content) >>
        /\ (openaiData.usage # None /\ openaiData.usage[1].prompt_tokens # None
                /\ ~CompletionReported(openaiData, claudeResponse.content)) =>
              claudeResponse.usage = << openaiData.usage[1].prompt_tokens[1],
                                        estimateClaudeContent(claudeResponse.content) >>
        /\ claudeResponse.usage[1] \in Nat
        /\ claudeResponse.usage[2] \in Nat

\* C17 witness: the upstream reported a completion count of 0 for a response
\* with content, and the output count is the estimate.
UsageFallbackWitness ==
    /\ returned = "json response"
    /\ openaiData.usage # None
    /\ openaiData.usage[1].prompt_tokens # None
    /\ openaiData.usage[1].prompt_tokens[1] > 0
    /\ openaiData.usage[1].completion_tokens = Some(0)
    /\ claudeResponse.content # <<>>
    /\ claudeResponse.usage[2] > 0

\* The delta of the payload the callback is called with.
CalledDelta == JsonParse(callArg.jsonStr).value.choices[1]

\* The names of the tool_use blocks among some events, in order.
ToolStartNames(events) ==
    [i \in 1..Len(SelectSeq(events, LAMBDA ev : ev.type = "content_block_start"
                                                  /\ ev.block = "tool_use")) |->
        SelectSeq(events, LAMBDA ev : ev.type = "content_block_start"
                                      /\ ev.block = "tool_use")[i].name]

\* The token total before the i-th call.
TotalBefore(i) == IF i = 1 THEN 0 ELSE calls[i - 1].accumulated

\* C18: of the tool-call fragments of a delta, those and only those that
\* carry both a name and arguments give a tool_use block, advance
\* toolUseBlockIndex by one and add estimate(name) + estimate(arguments) to
\* the token total; a fragment with only one of the two gives no event and
\* changes neither.
ToolFragmentNeedsBoth ==
    \A i \in 1..Len(calls) :
        (~calls[i].threw /\ ~calls[i].isNull) =>
            /\ ToolStartNames(calls[i].events)
                  = [k \in 1..Len(ToolFragments(CalledDelta.tool_calls)) |->
                        ToolFragments(CalledDelta.tool_calls)[k].name]
            /\ calls[i].toolUseBlockIndex
                  = callArg.toolUseBlockIndex + Len(ToolFragments(CalledDelta.tool_calls))
            /\ calls[i].accumulated
                  = TotalBefore(i) + estimate(CalledDelta.content)
                        + EstimateOf(ToolFragments(CalledDelta.tool_calls))

\* C18 witness: the callback got a delta whose two tool-call fragments carry
\* one a name only and one arguments only, and returned no event.
ToolFragmentNeedsBothWitness ==
    /\ Len(calls) >= 1
    /\ callArg.jsonStr = << "pPartial" >>
    /\ callArg.toolUseBlockIndex = 1
    /\ ~calls[1].threw /\ ~calls[1].isNull
    /\ calls[1].events = <<>>
    /\ calls[1].toolUseBlockIndex = 1
    /\ calls[1].accumulated = 0

\* The lines the claim calls ignored: blank, without the data marker, the
\* sentinel, or a payload without choices.
Ignored(line) ==
    \/ IsBlank(line)
    \/ ~StartsWithData(line)
    \/ Slice(line, 6) = << DONE >>
    \/ /\ ~JsonParse(Slice(line, 6)).threw
       /\ JsonParse(Slice(line, 6)).value.choices = <<>>

\* The pieces that line feeds cut the first p bytes of the body into.
PiecesUpTo(p) == Split(Decode("", SubSeq(body, 1, p)).text)

\* The lines completed between two such cuts.
NewLines(before, after) == SubSeq(after, Len(before), Len(after) - 1)

AllIgnored(lines) == \A k \in 1..Len(lines) : Ignored(lines[k])

\* C19: a read that completes only ignored lines enqueues no event and
\* leaves textBlockIndex, toolUseBlockIndex and the token totals as they
\* were, and the loop goes on to the next read.
IgnoredLinesChangeNothing ==
    [][(pc = "awaitRead" /\ pos' > pos)
       => \/ /\ out' = out
             /\ textBlockIndex' = textBlockIndex
             /\ toolUseBlockIndex' = toolUseBlockIndex
             /\ totalOutputTokens' = totalOutputTokens
             /\ accumulatedOutputTokens' = accumulatedOutputTokens
             /\ pc' = "awaitRead"
          \/ ~AllIgnored(NewLines(PiecesUpTo(pos), PiecesUpTo(pos')))]_vars

\* C19 witness: after a mixed line with three blocks, a line without choices
\* and a blank line were read, and the stream stands where the mixed line
\* left it.
IgnoredLinesChangeNothingWitness ==
    /\ Streaming /\ pc = "awaitRead"
    /\ ReceivedLines = << Data("pMixed"), Data("pNoChoices"), << CR >> >>
    /\ pos = Len(body)
    /\ Len(BlocksOf(out)) = 3
    /\ textBlockIndex = 1
    /\ toolUseBlockIndex = 2
    /\ accumulatedOutputTokens = EstimateOf(BlocksOf(out))

\* The parts of the request's path that are not empty.
Parts == SelectSeq(request.pathname, LAMBDA part : part # "")

EndsWithV1Messages ==
    /\ Len(Parts) >= 2
    /\ Parts[Len(Parts) - 1] = "v1"
    /\ Parts[Len(Parts)] = "messages"

KeyPresent == request.apiKey # None /\ request.apiKey[1] # ""

\* C20: the upstream is called only for a POST whose path has at least three
\* parts, ends with /v1/messages, names the type gemini or openai and a
\* provider URL, and that carries an x-api-key; a request that fails a check
\* gets that check's status and no upstream call: 405 for the method, 400 for
\* fewer than three parts, 404 for the ending, 400 for a missing provider URL
\* or an unknown type, 401 for the key.
NoFetchUnlessChecked ==
    /\ handled.fetched =>
          /\ request.method = "POST"
          /\ Len(Parts) >= 3
          /\ EndsWithV1Messages
          /\ Parts[1] \in {"gemini", "openai"}
          /\ Len(Parts) >= 4
          /\ KeyPresent
    /\ handled.stage = "done" =>
          /\ request.method # "POST" => handled = Refused(405)
          /\ (request.method = "POST" /\ Len(Parts) < 3) => handled = Refused(400)
          /\ (request.method = "POST" /\ Len(Parts) >= 3 /\ ~EndsWithV1Messages)
                => handled = Refused(404)
          /\ (request.method = "POST" /\ Len(Parts) = 3 /\ EndsWithV1Messages)
                => handled = Refused(400)
          /\ (request.method = "POST" /\ Len(Parts) >= 4 /\ EndsWithV1Messages
                /\ ~KeyPresent) => handled = Refused(401)
          /\ (request.method = "POST" /\ Len(Parts) >= 4 /\ EndsWithV1Messages
                /\ KeyPresent /\ Parts[1] \notin {"gemini", "openai"})
                => handled = Refused(400)

\* C20 witness: a request that passes every check but carries an empty
\* x-api-key was answered 401 without an upstream call.
NoFetchUnlessCheckedWitness ==
    /\ handled = Refused(401)
    /\ request.method = "POST"
    /\ Parts = << "openai", "host", "v1", "messages" >>
    /\ request.apiKey = Some("")
    /\ request.jsonOk

====
